---- MODULE Spec2Model ----
(***************************************************************************)
(* The Pterodactyl driver backend of atomic-cloud                          *)
(* (controller/drivers/pterodactyl/src/driver/backend.rs): construction of *)
(* the Backend from the persisted file and the environment, resolution of  *)
(* the configured user, and the paged walks over the panel's listings      *)
(* (for_each_on_pages, api_find_on_pages, get_free_allocations) and       *)
(* create_server; the administrator capsule of the controller              *)
(* (controller/src/application/auth/user.rs); and the versions menu of the *)
(* cli (cli/src/application/menu/connection/general/get_versions.rs).      *)
(***************************************************************************)
EXTENDS Integers, Sequences, FiniteSets, TLC

VARIABLES
    pc,           \* position of the page walk: "idle", "loop" (inside for_each_on_pages), "done"
    op,           \* the call that runs the walk: its target listing and its arguments
    page,         \* for_each_on_pages: `let mut page`
    value,        \* api_find_on_pages: `let mut value` (Option<T>)
    allocations,  \* get_free_allocations: `let mut allocations` (Vec<BAllocation>)
    trace,        \* history of the current walk: requests sent, failed fetches, callback calls
    file,         \* configs/backend.toml: absent, unreadable, or a persisted Backend
    env,          \* the process environment: PTERODACTYL_URL / _TOKEN / _USER
    backend,      \* the Backend value under construction / constructed (Option<Backend>)
    missing,      \* new_filled: `let mut missing` (the fields reported as missing)
    outcome,      \* result of new_filled_and_resolved: "none" (not returned yet), "ok", "err"
    cpc,          \* position of new_filled_and_resolved: "start", "resolving", "returned", "ready"
                  \* (ready: the Backend is held by the driver)
    lookups,      \* number of get_user_by_name calls made by the construction
    created,      \* the create_server call in progress: its request, the response, its result
    capsules,     \* the authorization capsules alive (Box<AdminUser>), in order of creation
    origin,       \* for each capsule, the capsule recreate() built it from (0: AdminUser::create)
    answer,       \* the last call on a capsule: its receiver, its argument and what it returned
    racers,       \* the locals of get_free_allocations in each of two concurrent callers
    menu          \* GetVersionsMenu::show: its position, the calls made, the progress, the result

vars == <<pc, op, page, value, allocations, trace, file, env, backend, missing,
          outcome, cpc, lookups, created, capsules, origin, answer, racers, menu>>

walkVars == <<pc, op, page, value, allocations, trace>>
ctorVars == <<file, env, backend, missing, outcome, cpc, lookups>>
\* what the calls other than the walks and the construction hold
authVars == <<capsules, origin, answer>>
sideVars == <<authVars, racers, menu>>
restVars == <<created, sideVars>>

---------------------------------------------------------------------------
(* Bounds of the model. *)

\* largest total_pages value the panel reports
MaxPages == 2
\* largest number of entries on one page
MaxPerPage == 2
\* largest `amount` passed to get_free_allocations
MaxAmount == 2
\* largest number of failed fetches within one walk
MaxFails == 1
\* largest number of capsules alive
MaxCapsules == 3

---------------------------------------------------------------------------
(* Option<T> is a sequence of length at most one. *)

None == <<>>
Some(x) == <<x>>
IsSome(o) == o # <<>>
Unwrap(o) == o[1]

Max(a, b) == IF a >= b THEN a ELSE b

\* sequences over S without repetition, of length at most n
InjSeqs(S, n) ==
    UNION {{s \in [1..k -> S] : \A i, j \in 1..k : i # j => s[i] # s[j]} : k \in 0..n}

\* the elements of a sequence
Range(s) == {s[i] : i \in 1..Len(s)}

---------------------------------------------------------------------------
(* The panel's directory: the entries its paged listings can hold.         *)
(* An entry appears at most once in a listing; two users may share a name  *)
(* so that "the first match" is distinguishable from "a match".            *)

\* BUser { id, username }
Users ==
    {[id |-> 1, name |-> "admin"], [id |-> 2, name |-> "admin"], [id |-> 3, name |-> "bob"]}
\* BNode { id, name }
Nodes ==
    {[id |-> 1, name |-> "node-a"], [id |-> 2, name |-> "node-a"], [id |-> 3, name |-> "node-b"]}
\* BServer { id, name }
Servers ==
    {[id |-> 1, name |-> "lobby"], [id |-> 2, name |-> "lobby"], [id |-> 3, name |-> "game"]}

\* BAllocation { id, ip, port, assigned }
Allocations ==
    { [id |-> 1, ip |-> "10.0.0.1", port |-> 100, assigned |-> FALSE],
      [id |-> 2, ip |-> "10.0.0.1", port |-> 101, assigned |-> TRUE],
      [id |-> 3, ip |-> "10.0.0.2", port |-> 100, assigned |-> FALSE] }

\* the `used_allocations` slices a caller passes
UsedLists == InjSeqs({a \in Allocations : a.id \in {1, 2}}, 1)

Entries(target) ==
    CASE target = "users" -> Users
      [] target = "nodes" -> Nodes
      [] target = "servers" -> Servers
      [] OTHER -> Allocations

Names(target) ==
    CASE target = "users" -> {"admin", "bob"}
      [] target = "nodes" -> {"node-a", "node-b"}
      [] OTHER -> {"lobby", "game"}

---------------------------------------------------------------------------
(* The history of a walk. *)

Event(kind, p, url, token, data, total, stop, examined) ==
    [ev |-> kind, page |-> p, url |-> url, token |-> token, data |-> data,
     total_pages |-> total, stop |-> stop, examined |-> examined]

\* a request for page p, addressed with the url and the bearer token of `self`
RequestEv(p, self) == Event("request", p, Unwrap(self.url), Unwrap(self.token), <<>>, 0, FALSE, 0)
FailedEv(p) == Event("failed", p, "", "", <<>>, 0, FALSE, 0)
CallbackEv(p, body, stop, examined) ==
    Event("callback", p, "", "", body.data, body.total_pages, stop, examined)

IsRequest(e) == e.ev = "request"
IsFailed(e) == e.ev = "failed"
IsCallback(e) == e.ev = "callback"

Requests(t) == SelectSeq(t, IsRequest)
Failures(t) == SelectSeq(t, IsFailed)
Callbacks(t) == SelectSeq(t, IsCallback)

\* entries of the listing already served to this walk
Served(t) == UNION {Range(t[i].data) : i \in 1..Len(t)}
---------------------------------------------------------------------------
(* The transport: what send_http_request can hand back for one request.    *)
(* A body is the page envelope BList<T>: the data array and                *)
(* meta.pagination.total_pages. Bytes that do not decode are None.         *)

ExpectedCode == 200
StatusCodes == {200, 422}

Bodies(target, served) ==
    [data : InjSeqs(Entries(target) \ served, MaxPerPage), total_pages : 0..MaxPages]

HttpResponses(target, served) ==
    {None} \cup
    {Some([status_code |-> s, bytes |-> b]) :
        s \in StatusCodes, b \in {None} \cup {Some(x) : x \in Bodies(target, served)}}

\* a response check that ignores the status code
handle_response_any_status(response, expected_code) ==
    IF response = None THEN None
    ELSE IF Unwrap(response).bytes = None THEN None
    ELSE Some(Unwrap(Unwrap(response).bytes))

\* handle_response: Some(decoded body) only for a response with the expected
\* status whose bytes decode
handle_response(response, expected_code) ==
    IF response = None THEN None
    ELSE IF Unwrap(response).status_code # expected_code THEN None
    ELSE IF Unwrap(response).bytes = None THEN None
    ELSE Some(Unwrap(Unwrap(response).bytes))

\* send_request_to_api, given what send_http_request returned
send_request_to_api(response) == handle_response(response, ExpectedCode)

\* api_get_list
api_get_list(response) == send_request_to_api(response)

---------------------------------------------------------------------------
(* The callbacks of the walks. *)

\* a find that keeps the last match of the page instead of the first
find_by_name_last(data, name) ==
    LET hits == {i \in 1..Len(data) : data[i].name = name}
    IN  IF hits = {} THEN None
        ELSE Some(data[CHOOSE i \in hits : \A j \in hits : i >= j])

\* object.data.iter().find(|e| e.attributes.name == name).map(clone)
find_by_name(data, name) ==
    LET hits == {i \in 1..Len(data) : data[i].name = name}
    IN  IF hits = {} THEN None
        ELSE Some(data[CHOOSE i \in hits : \A j \in hits : i <= j])

\* the closure api_find_on_pages hands to for_each_on_pages
api_find_on_pages(data, name, val) ==
    LET found == find_by_name(data, name)
    IN  IF IsSome(found)
        THEN [stop |-> TRUE, value |-> found, examined |-> Len(data)]
        ELSE [stop |-> FALSE, value |-> val, examined |-> Len(data)]

\* a skip test that forgets the provider's assigned flag
is_skipped_unassigned_only(allocation, used) ==
    \E i \in 1..Len(used) :
        used[i].ip = allocation.ip /\ used[i].port = allocation.port

\* a skip test that matches on ip or port instead of the pair
is_skipped_ip_or_port(allocation, used) ==
    \/ allocation.assigned
    \/ \E i \in 1..Len(used) :
          used[i].ip = allocation.ip \/ used[i].port = allocation.port

\* the `continue` test of get_free_allocations
is_skipped(allocation, used) ==
    \/ allocation.assigned
    \/ \E i \in 1..Len(used) :
          used[i].ip = allocation.ip /\ used[i].port = allocation.port

\* an end test that is off by one
is_enough_late(len, amount) == len > amount

\* the test that ends the collection, made after the push
is_enough(len, amount) == len >= amount

\* the closure of get_free_allocations: the `for allocation in &response.data` loop
RECURSIVE collect(_, _, _, _, _)
collect(data, i, acc, used, amount) ==
    IF i > Len(data) THEN [stop |-> FALSE, allocations |-> acc, examined |-> Len(data)]
    ELSE IF is_skipped(data[i], used) THEN collect(data, i + 1, acc, used, amount)
    ELSE IF is_enough(Len(acc) + 1, amount)
         THEN [stop |-> TRUE, allocations |-> Append(acc, data[i]), examined |-> i]
         ELSE collect(data, i + 1, Append(acc, data[i]), used, amount)

\* a step that forgets to advance the page
next_page_same(p) == p

\* for_each_on_pages: `page += 1`
next_page(p) == p + 1

\* a stop test that is off by one
pages_exhausted_late(total_pages, p) == total_pages < p

\* the stop test of for_each_on_pages after a callback that returned false
pages_exhausted(total_pages, p) == total_pages <= p

---------------------------------------------------------------------------
(* The calls that start a walk. *)

NoOp == [target |-> "none", name |-> "", used |-> <<>>, amount |-> 0]

NoCall ==
    [called |-> FALSE, panicked |-> FALSE, request |-> None, response |-> None,
     result |-> None]

begin_walk(call) ==
    /\ pc = "idle"
    /\ created = NoCall
    /\ op' = call
    /\ page' = 1
    /\ value' = None
    /\ allocations' = <<>>
    /\ trace' = <<>>
    /\ pc' = "loop"

get_user_by_name ==
    /\ cpc = "ready"
    /\ \E username \in Names("users") :
          begin_walk([target |-> "users", name |-> username, used |-> <<>>, amount |-> 0])
    /\ UNCHANGED <<ctorVars, restVars>>

get_node_by_name ==
    /\ cpc = "ready"
    /\ \E name \in Names("nodes") :
          begin_walk([target |-> "nodes", name |-> name, used |-> <<>>, amount |-> 0])
    /\ UNCHANGED <<ctorVars, restVars>>

get_server_by_name ==
    /\ cpc = "ready"
    /\ \E name \in Names("servers") :
          begin_walk([target |-> "servers", name |-> name, used |-> <<>>, amount |-> 0])
    /\ UNCHANGED <<ctorVars, restVars>>

\* target nodes/{node_id}/allocations
get_free_allocations ==
    /\ cpc = "ready"
    /\ \E used \in UsedLists, amount \in 0..MaxAmount :
          begin_walk([target |-> "allocations", name |-> "", used |-> used, amount |-> amount])
    /\ UNCHANGED <<ctorVars, restVars>>

---------------------------------------------------------------------------
(* One iteration of the loop of for_each_on_pages: the request for `page`, *)
(* the response, the callback and the decision to stop or go on.           *)

callback(body) ==
    IF op.target = "allocations"
    THEN LET r == collect(body.data, 1, allocations, op.used, op.amount)
         IN  [stop |-> r.stop, value |-> value, allocations |-> r.allocations,
              examined |-> r.examined]
    ELSE LET r == api_find_on_pages(body.data, op.name, value)
         IN  [stop |-> r.stop, value |-> r.value, allocations |-> allocations,
              examined |-> r.examined]

for_each_on_pages ==
    /\ pc = "loop"
    /\ \E response \in HttpResponses(op.target, Served(trace)) :
          LET got == api_get_list(response)
              sent == Append(trace, RequestEv(page, Unwrap(backend)))
          IN  IF IsSome(got)
              THEN LET body == Unwrap(got)
                       r == callback(body)
                   IN  /\ value' = r.value
                       /\ allocations' = r.allocations
                       /\ trace' = Append(sent, CallbackEv(page, body, r.stop, r.examined))
                       /\ IF r.stop
                          THEN pc' = "done" /\ page' = page
                          ELSE IF pages_exhausted(body.total_pages, page)
                               THEN pc' = "done" /\ page' = page
                               ELSE pc' = "loop" /\ page' = next_page(page)
              ELSE /\ Len(Failures(trace)) < MaxFails
                   /\ trace' = Append(sent, FailedEv(page))
                   /\ UNCHANGED <<pc, page, value, allocations>>
    /\ UNCHANGED <<op, ctorVars, restVars>>

\* the walk's result is handed to the caller
walk_return ==
    /\ pc = "done"
    /\ cpc = "ready"
    /\ pc' = "idle"
    /\ op' = NoOp
    /\ page' = 1
    /\ value' = None
    /\ allocations' = <<>>
    /\ trace' = <<>>
    /\ UNCHANGED <<ctorVars, restVars>>

---------------------------------------------------------------------------
(* Construction of the Backend: new_filled_and_resolved.                   *)

EnvVars == {"PTERODACTYL_URL", "PTERODACTYL_TOKEN", "PTERODACTYL_USER"}

\* Backend::new_empty
new_empty ==
    [url |-> Some(""), token |-> Some(""), user |-> Some(""), resolved |-> None]

\* Backend::load_or_empty, given the file: the Backend it returns
load_or_empty(f) ==
    IF f.exists
    THEN IF IsSome(f.content) THEN Unwrap(f.content) ELSE new_empty
    ELSE new_empty

\* Backend::load_or_empty: the file it leaves (an absent file is written with
\* the empty Backend unless the save fails)
save_default(f, saved) ==
    IF ~f.exists /\ saved THEN [exists |-> TRUE, content |-> Some(new_empty)] ELSE f

\* an override that lets a value of the file win over the environment
env_override_file_first(b, e) ==
    [url |-> IF IsSome(b.url) THEN b.url ELSE e["PTERODACTYL_URL"],
     token |-> IF IsSome(b.token) THEN b.token ELSE e["PTERODACTYL_TOKEN"],
     user |-> IF IsSome(b.user) THEN b.user ELSE e["PTERODACTYL_USER"],
     resolved |-> b.resolved]

\* new_filled: the environment overrides
env_override(b, e) ==
    [url |-> IF IsSome(e["PTERODACTYL_URL"]) THEN e["PTERODACTYL_URL"] ELSE b.url,
     token |-> IF IsSome(e["PTERODACTYL_TOKEN"]) THEN e["PTERODACTYL_TOKEN"] ELSE b.token,
     user |-> IF IsSome(e["PTERODACTYL_USER"]) THEN e["PTERODACTYL_USER"] ELSE b.user,
     resolved |-> b.resolved]

\* a check that forgets the empty string
is_missing_none_only(field) == field = None

\* new_filled: `x.is_none() || x.as_ref().unwrap().is_empty()`
is_missing(field) == field = None \/ Unwrap(field) = ""

\* new_filled: the `missing` vector
missing_fields(b) ==
    (IF is_missing(b.url) THEN <<"url">> ELSE <<>>) \o
    (IF is_missing(b.token) THEN <<"token">> ELSE <<>>) \o
    (IF is_missing(b.user) THEN <<"user">> ELSE <<>>)

\* Backend::new_filled: Ok(backend) or Err with the missing fields
new_filled(f, e) ==
    LET b == env_override(load_or_empty(f), e)
        m == missing_fields(b)
    IN  [ok |-> m = <<>>, backend |-> b, missing |-> m]

\* a resolution that falls back to a default user id
new_resolved_or_default(found) ==
    IF IsSome(found) THEN Some([user |-> Unwrap(found).id]) ELSE Some([user |-> 0])

\* ResolvedValues::new_resolved, given what get_user_by_name returned:
\* Some(ResolvedValues) for Ok, None for Err
new_resolved(found) ==
    IF IsSome(found) THEN Some([user |-> Unwrap(found).id]) ELSE None

\* a store that trusts a resolved value already present
with_resolved_kept(b, resolved) ==
    IF IsSome(b.resolved) THEN b ELSE [b EXCEPT !.resolved = resolved]

\* new_filled_and_resolved: `backend.resolved = Some(resolved)`
with_resolved(b, resolved) == [b EXCEPT !.resolved = resolved]

\* new_filled_and_resolved up to the first request of the user lookup
new_filled_and_resolved ==
    /\ cpc = "start"
    /\ \E saved \in BOOLEAN :
          LET r == new_filled(file, env)
          IN  /\ file' = save_default(file, saved)
              /\ missing' = r.missing
              /\ IF r.ok
                 THEN /\ backend' = Some(r.backend)
                      /\ lookups' = lookups + 1
                      /\ begin_walk([target |-> "users", name |-> Unwrap(r.backend.user),
                                     used |-> <<>>, amount |-> 0])
                      /\ cpc' = "resolving"
                      /\ UNCHANGED outcome
                 ELSE /\ backend' = None
                      /\ outcome' = "err"
                      /\ cpc' = "returned"
                      /\ UNCHANGED <<lookups, walkVars>>
    /\ UNCHANGED <<env, restVars>>

\* new_filled_and_resolved after the user lookup has returned
resolve_return ==
    /\ cpc = "resolving"
    /\ pc = "done"
    /\ LET resolved == new_resolved(value)
       IN  IF IsSome(resolved)
           THEN /\ backend' = Some(with_resolved(Unwrap(backend), resolved))
                /\ outcome' = "ok"
           ELSE /\ backend' = None
                /\ outcome' = "err"
    /\ cpc' = "returned"
    /\ pc' = "idle"
    /\ UNCHANGED <<op, page, value, allocations, trace, file, env, missing, lookups, restVars>>

\* the Backend built by new_filled_and_resolved is handed to the driver, which
\* holds it from then on; the locals of the user lookup are gone
backend_ready ==
    /\ cpc = "returned"
    /\ outcome = "ok"
    /\ cpc' = "ready"
    /\ op' = NoOp
    /\ page' = 1
    /\ value' = None
    /\ allocations' = <<>>
    /\ trace' = <<>>
    /\ UNCHANGED <<pc, file, env, backend, missing, outcome, lookups, restVars>>

---------------------------------------------------------------------------
(* create_server: one POST to the panel's servers endpoint.                *)

PostStatusCodes == {200, 201, 422}

\* what send_http_request can hand back for the POST: no response, or a status
\* with bytes that decode to BObject<BServer> or do not decode
PostResponses ==
    {None} \cup
    {Some([status_code |-> s, bytes |-> b]) :
        s \in PostStatusCodes,
        b \in {None} \cup {Some([attributes |-> sv]) : sv \in Servers}}

\* the BCServer that create_server builds: the name of the server, the
\* resolved user of `self` and the id of the chosen allocation
new_backend_server(name, self, allocation) ==
    [name |-> name, user |-> Unwrap(self.resolved).user, allocation |-> allocation.id]

\* post_object_to_api, given what send_http_request returned
post_object_to_api(response) == send_request_to_api(response)

\* create_server: `.map(|data| data.attributes)`
created_server(response) ==
    IF IsSome(post_object_to_api(response))
    THEN Some(Unwrap(post_object_to_api(response)).attributes)
    ELSE None

\* create_server on the Backend the construction returned; reading an absent
\* resolved identity panics before any request is sent
create_server ==
    /\ cpc = "ready"
    /\ outcome = "ok"
    /\ pc = "idle"
    /\ created = NoCall
    /\ \E name \in Names("servers"), allocation \in Allocations, response \in PostResponses :
          IF Unwrap(backend).resolved = None
          THEN created' = [NoCall EXCEPT !.called = TRUE, !.panicked = TRUE]
          ELSE created' =
                  [called |-> TRUE, panicked |-> FALSE,
                   request |-> Some(new_backend_server(name, Unwrap(backend), allocation)),
                   response |-> response,
                   result |-> created_server(response)]
    /\ UNCHANGED <<walkVars, ctorVars, sideVars>>

\* the result of create_server is handed to the caller
create_return ==
    /\ created # NoCall
    /\ created' = NoCall
    /\ UNCHANGED <<walkVars, ctorVars, sideVars>>

---------------------------------------------------------------------------
(* The administrator capsule: impl GenericAuthorization for AdminUser.     *)

\* AuthType
AuthTypes == {"User", "Server"}
Usernames == {"admin", "bob"}
\* `_flag: u32`
Flags == {0, 1, 2, 2147483647}

\* AdminUser::create: Box::new(Self { username })
create(username) == [variant |-> "AdminUser", username |-> username]

\* a capability check that refuses the flag 0
is_allowed_nonzero(self, flag) == flag # 0

is_allowed(self, flag) == TRUE

get_user(self) == Some(self)

get_server(self) == None

is_type(self, auth) == auth = "User"

\* a reconstruction that forgets the username
recreate_default(self) == create("admin")

\* recreate: AdminUser::create(self.username.clone())
recreate(self) == create(self.username)

NoAnswer ==
    [call |-> "none", self |-> 0, flag |-> None, auth |-> None, bool |-> None,
     ref |-> None, made |-> 0]

call_create ==
    /\ Len(capsules) < MaxCapsules
    /\ \E username \in Usernames :
          capsules' = Append(capsules, create(username))
    /\ origin' = Append(origin, 0)
    /\ answer' = [NoAnswer EXCEPT !.call = "create", !.made = Len(capsules) + 1]
    /\ UNCHANGED <<walkVars, ctorVars, created, racers, menu>>

call_is_allowed ==
    /\ \E i \in 1..Len(capsules), flag \in Flags :
          answer' = [NoAnswer EXCEPT !.call = "is_allowed", !.self = i, !.flag = Some(flag),
                                     !.bool = Some(is_allowed(capsules[i], flag))]
    /\ UNCHANGED <<walkVars, ctorVars, created, capsules, origin, racers, menu>>

call_get_user ==
    /\ \E i \in 1..Len(capsules) :
          answer' = [NoAnswer EXCEPT !.call = "get_user", !.self = i,
                                     !.ref = get_user(capsules[i])]
    /\ UNCHANGED <<walkVars, ctorVars, created, capsules, origin, racers, menu>>

call_get_server ==
    /\ \E i \in 1..Len(capsules) :
          answer' = [NoAnswer EXCEPT !.call = "get_server", !.self = i,
                                     !.ref = get_server(capsules[i])]
    /\ UNCHANGED <<walkVars, ctorVars, created, capsules, origin, racers, menu>>

call_is_type ==
    /\ \E i \in 1..Len(capsules), auth \in AuthTypes :
          answer' = [NoAnswer EXCEPT !.call = "is_type", !.self = i, !.auth = Some(auth),
                                     !.bool = Some(is_type(capsules[i], auth))]
    /\ UNCHANGED <<walkVars, ctorVars, created, capsules, origin, racers, menu>>

call_recreate ==
    /\ Len(capsules) < MaxCapsules
    /\ \E i \in 1..Len(capsules) :
          /\ capsules' = Append(capsules, recreate(capsules[i]))
          /\ origin' = Append(origin, i)
          /\ answer' = [NoAnswer EXCEPT !.call = "recreate", !.self = i,
                                        !.made = Len(capsules) + 1]
    /\ UNCHANGED <<walkVars, ctorVars, created, racers, menu>>

---------------------------------------------------------------------------
(* Two callers inside get_free_allocations at the same time. Each has its  *)
(* own locals (the method takes &self and writes nothing of the Backend);  *)
(* `examined` is the entries its closure has looked at, in order.          *)

Threads == {1, 2}

NoRacer ==
    [pc |-> "idle", used |-> <<>>, amount |-> 0, page |-> 1, allocations |-> <<>>,
     examined |-> <<>>]

concurrent_get_free_allocations ==
    /\ cpc = "ready"
    /\ \E t \in Threads, used \in UsedLists, amount \in 0..MaxAmount :
          /\ racers[t].pc = "idle"
          /\ racers' = [racers EXCEPT ![t] = [NoRacer EXCEPT !.pc = "loop", !.used = used,
                                                             !.amount = amount]]
    /\ UNCHANGED <<walkVars, ctorVars, created, authVars, menu>>

\* one iteration of for_each_on_pages in one of the callers; after a failed
\* fetch the caller's locals are as before and the page is requested again
concurrent_for_each_on_pages ==
    /\ \E t \in Threads :
          /\ racers[t].pc = "loop"
          /\ \E got \in {api_get_list(response) :
                            response \in HttpResponses("allocations",
                                                       Range(racers[t].examined))} :
                LET self == racers[t]
                IN  IF IsSome(got)
                    THEN LET body == Unwrap(got)
                             r == collect(body.data, 1, self.allocations, self.used,
                                          self.amount)
                             done == r.stop \/ pages_exhausted(body.total_pages, self.page)
                         IN  racers' =
                                [racers EXCEPT ![t] =
                                    [self EXCEPT
                                        !.allocations = r.allocations,
                                        !.examined = self.examined \o
                                                     SubSeq(body.data, 1, r.examined),
                                        !.pc = IF done THEN "done" ELSE "loop",
                                        !.page = IF done THEN self.page
                                                 ELSE next_page(self.page)]]
                    ELSE UNCHANGED racers
    /\ UNCHANGED <<walkVars, ctorVars, created, authVars, menu>>

---------------------------------------------------------------------------
(* GetVersionsMenu::show and get_required_data. *)

Profiles == {"local", "staging", "production"}
CtrlVersions == {"0.1.0", "0.2.0", "0.3.0"}
ProtoVersions == {1, 2, 3}
Errors == {"unavailable", "timeout", "refused"}

\* what get_ctrl_ver can return
CtrlResponses ==
    {[ok |-> TRUE, version |-> Some(v), protocol |-> None, error |-> None] : v \in CtrlVersions}
    \cup {[ok |-> FALSE, version |-> None, protocol |-> None, error |-> Some(e)] : e \in Errors}

\* what get_proto_ver can return
ProtoResponses ==
    {[ok |-> TRUE, version |-> None, protocol |-> Some(v), error |-> None] : v \in ProtoVersions}
    \cup {[ok |-> FALSE, version |-> None, protocol |-> None, error |-> Some(e)] : e \in Errors}

NoData == [returned |-> FALSE, ok |-> FALSE, version |-> None, protocol |-> None, error |-> None]

NoMenu ==
    [pc |-> "idle", profile |-> "", calls |-> <<>>, responses |-> <<>>, version |-> None,
     data |-> NoData, progress |-> <<>>, result |-> [kind |-> "none", error |-> None]]

\* a menu that reports success whatever get_required_data returned
MenuResult_success(data) == [kind |-> "Success", error |-> None]

\* the match of show: MenuResult::Success or MenuResult::Failed(error)
MenuResult(data) ==
    IF data.ok THEN [kind |-> "Success", error |-> None]
    ELSE [kind |-> "Failed", error |-> data.error]

\* show up to the call of get_required_data
show ==
    /\ menu.pc = "idle"
    /\ \E profile \in Profiles :
          menu' = [NoMenu EXCEPT !.pc = "get_ctrl_ver", !.profile = profile,
                                 !.progress = <<[ev |-> "text", text |-> profile]>>]
    /\ UNCHANGED <<walkVars, ctorVars, created, authVars, racers>>

\* get_required_data: `connection.client.get_ctrl_ver().await?`
get_ctrl_ver ==
    /\ menu.pc = "get_ctrl_ver"
    /\ \E response \in CtrlResponses :
          menu' = [menu EXCEPT
                      !.calls = Append(@, "get_ctrl_ver"),
                      !.responses = Append(@, response),
                      !.version = response.version,
                      !.pc = IF response.ok THEN "get_proto_ver" ELSE "match",
                      !.data = IF response.ok THEN @
                               ELSE [NoData EXCEPT !.returned = TRUE,
                                                   !.error = response.error]]
    /\ UNCHANGED <<walkVars, ctorVars, created, authVars, racers>>

\* get_required_data: `connection.client.get_proto_ver().await?` and the Ok
get_proto_ver ==
    /\ menu.pc = "get_proto_ver"
    /\ \E response \in ProtoResponses :
          menu' = [menu EXCEPT
                      !.calls = Append(@, "get_proto_ver"),
                      !.responses = Append(@, response),
                      !.pc = "match",
                      !.data = IF response.ok
                               THEN [returned |-> TRUE, ok |-> TRUE, version |-> menu.version,
                                     protocol |-> response.protocol, error |-> None]
                               ELSE [NoData EXCEPT !.returned = TRUE,
                                                   !.error = response.error]]
    /\ UNCHANGED <<walkVars, ctorVars, created, authVars, racers>>

\* the two arms of the match in show
show_match ==
    /\ menu.pc = "match"
    /\ menu' = [menu EXCEPT
                   !.pc = "returned",
                   !.progress =
                       IF menu.data.ok
                       THEN @ \o <<[ev |-> "success", text |-> "Data retrieved successfully"],
                                   [ev |-> "end", text |-> ""]>>
                       ELSE @ \o <<[ev |-> "fail", text |-> Unwrap(menu.data.error)],
                                   [ev |-> "end", text |-> ""]>>,
                   !.result = MenuResult(menu.data)]
    /\ UNCHANGED <<walkVars, ctorVars, created, authVars, racers>>

\* the menu is left
show_return ==
    /\ menu.pc = "returned"
    /\ menu' = NoMenu
    /\ UNCHANGED <<walkVars, ctorVars, created, authVars, racers>>

---------------------------------------------------------------------------
(* The walks of a constructed Backend. *)

ReadyBackend ==
    [url |-> Some("http://panel"), token |-> Some("secret"), user |-> Some("admin"),
     resolved |-> Some([user |-> 1])]

InitSide ==
    /\ capsules = <<>>
    /\ origin = <<>>
    /\ answer = NoAnswer
    /\ racers = [t \in Threads |-> NoRacer]
    /\ menu = NoMenu

InitWalk ==
    /\ pc = "idle"
    /\ op = NoOp
    /\ page = 1
    /\ value = None
    /\ allocations = <<>>
    /\ trace = <<>>

Init ==
    /\ InitWalk
    /\ file = [exists |-> TRUE, content |-> Some([ReadyBackend EXCEPT !.resolved = None])]
    /\ env = [v \in EnvVars |-> None]
    /\ backend = Some(ReadyBackend)
    /\ missing = <<>>
    /\ outcome = "ok"
    /\ cpc = "ready"
    /\ lookups = 1
    /\ created = NoCall
    /\ InitSide

Next ==
    \/ get_user_by_name
    \/ get_node_by_name
    \/ get_server_by_name
    \/ get_free_allocations
    \/ for_each_on_pages
    \/ walk_return
    \/ create_server
    \/ create_return

Spec == Init /\ [][Next]_vars

---------------------------------------------------------------------------
(* The calls on the capsules of a running controller. *)

NextAuth ==
    \/ call_create
    \/ call_is_allowed
    \/ call_get_user
    \/ call_get_server
    \/ call_is_type
    \/ call_recreate

SpecAuth == Init /\ [][NextAuth]_vars

(* Two concurrent callers of get_free_allocations on one Backend. *)

NextRace ==
    \/ concurrent_get_free_allocations
    \/ concurrent_for_each_on_pages

SpecRace == Init /\ [][NextRace]_vars

(* The versions menu of the cli. *)

NextMenu ==
    \/ show
    \/ get_ctrl_ver
    \/ get_proto_ver
    \/ show_match
    \/ show_return

SpecMenu == Init /\ [][NextMenu]_vars

---------------------------------------------------------------------------
(* The construction, from every file and environment. *)

FileValues(present) == {None, Some(""), Some(present)}

Files ==
    {[exists |-> FALSE, content |-> None], [exists |-> TRUE, content |-> None]} \cup
    {[exists |-> TRUE, content |-> Some(b)] :
        b \in [url : FileValues("http://file"), token : FileValues("file-token"),
               user : FileValues("admin"), resolved : {None, Some([user |-> 9])}]}

Envs ==
    {e \in [EnvVars -> {None, Some(""), Some("http://env"), Some("env-token"), Some("bob")}] :
        /\ e["PTERODACTYL_URL"] \in {None, Some(""), Some("http://env")}
        /\ e["PTERODACTYL_TOKEN"] \in {None, Some(""), Some("env-token")}
        /\ e["PTERODACTYL_USER"] \in {None, Some(""), Some("bob")}}

InitNew ==
    /\ InitWalk
    /\ file \in Files
    /\ env \in Envs
    /\ backend = None
    /\ missing = <<>>
    /\ outcome = "none"
    /\ cpc = "start"
    /\ lookups = 0
    /\ created = NoCall
    /\ InitSide

NextNew ==
    \/ new_filled_and_resolved
    \/ for_each_on_pages
    \/ resolve_return
    \/ backend_ready
    \/ create_server
    \/ create_return

SpecNew == InitNew /\ [][NextNew]_vars

---------------------------------------------------------------------------
(* Vocabulary of the properties, stated on the history of the walk and     *)
(* independently of the callbacks above.                                   *)

IsFind == op.target \in {"users", "nodes", "servers"}
IsAlloc == op.target = "allocations"

Pages(events) == [i \in 1..Len(events) |-> events[i].page]
UpTo(n) == [i \in 1..n |-> i]

\* an entry of a page carries the name looked up
HasMatch(data) == \E i \in 1..Len(data) : data[i].name = op.name
FirstMatch(data) ==
    data[CHOOSE i \in 1..Len(data) :
            /\ data[i].name = op.name
            /\ \A j \in 1..(i - 1) : data[j].name # op.name]

\* indexes of the evaluated pages that hold a match
MatchPages == {i \in 1..Len(Callbacks(trace)) : HasMatch(Callbacks(trace)[i].data)}
LowestMatch == CHOOSE i \in MatchPages : \A j \in MatchPages : i <= j

\* an allocation the resolver may hand out: unassigned and its (ip, port) not in used
Acceptable(a) ==
    /\ ~a.assigned
    /\ \A i \in 1..Len(op.used) : ~(op.used[i].ip = a.ip /\ op.used[i].port = a.port)

\* positions <<evaluated page, index in page>> of the acceptable allocations served
AcceptablePositions ==
    {pos \in (1..Len(Callbacks(trace))) \X (1..MaxPerPage) :
        /\ pos[2] <= Len(Callbacks(trace)[pos[1]].data)
        /\ Acceptable(Callbacks(trace)[pos[1]].data[pos[2]])}

\* rank of a position among the acceptable ones, in page order then in-page order
Rank(pos) ==
    Cardinality({q \in AcceptablePositions :
                    q[1] < pos[1] \/ (q[1] = pos[1] /\ q[2] <= pos[2])})

RECURSIVE ConcatData(_)
ConcatData(events) ==
    IF events = <<>> THEN <<>> ELSE Head(events).data \o ConcatData(Tail(events))

AcceptableServed == SelectSeq(ConcatData(Callbacks(trace)), Acceptable)

---------------------------------------------------------------------------
(* C1: a failed page fetch ends the walk: after a fetch has failed the     *)
(* walk issues no further request, neither for the same page nor for a     *)
(* later one.                                                              *)
C1_FailedFetchEndsWalk ==
    \A i \in 1..Len(trace) :
        IsFailed(trace[i]) => \A j \in (i + 1)..Len(trace) : ~IsRequest(trace[j])

(* C2: get_free_allocations never holds or returns more than `amount`      *)
(* allocations, for every amount >= 0.                                     *)
C2_AtMostAmount ==
    IsAlloc => Len(allocations) <= op.amount

(* C3: every allocation collected by get_free_allocations was served by    *)
(* the provider with assigned = false and has an (ip, port) pair equal to  *)
(* that of no element of used.                                             *)
C3_OnlyUnassignedUnused ==
    IsAlloc =>
        \A i \in 1..Len(allocations) :
            /\ allocations[i] \in Served(trace)
            /\ allocations[i].assigned = FALSE
            /\ \A j \in 1..Len(op.used) :
                  ~(op.used[j].ip = allocations[i].ip /\ op.used[j].port = allocations[i].port)

\* the walk is over, it was served an assigned allocation and a used one,
\* and it returns another one
C3_Witness ==
    /\ IsAlloc
    /\ pc = "done"
    /\ allocations # <<>>
    /\ \E a \in Served(trace) : a.assigned
    /\ \E a \in Served(trace) : ~a.assigned /\ ~Acceptable(a)

(* C4: when a match exists on an evaluated page, k being the lowest such   *)
(* page, api_find_on_pages holds the first match of page k in data order,  *)
(* the walk is over and no request was made for a page greater than k.     *)
C4_FirstMatchNoFetchBeyond ==
    (IsFind /\ MatchPages # {}) =>
        LET hit == Callbacks(trace)[LowestMatch]
        IN  /\ value = Some(FirstMatch(hit.data))
            /\ pc = "done"
            /\ \A i \in 1..Len(trace) : IsRequest(trace[i]) => trace[i].page <= hit.page

\* the match lies on page 2, which holds two entries with the name looked up
C4_Witness ==
    /\ IsFind
    /\ pc = "done"
    /\ MatchPages # {}
    /\ Callbacks(trace)[LowestMatch].page = 2
    /\ Cardinality({e \in Range(Callbacks(trace)[LowestMatch].data) : e.name = op.name}) = 2
    /\ IsSome(value)

\* the evaluated pages hold no match and all report the same total_pages
NoMatchListing ==
    /\ IsFind
    /\ pc = "done"
    /\ MatchPages = {}
    /\ \A i \in 1..Len(Callbacks(trace)) :
          Callbacks(trace)[i].total_pages = Callbacks(trace)[1].total_pages
ReportedTotal == Callbacks(trace)[1].total_pages

(* C5 as stated: on a listing without match that reports total_pages = T,  *)
(* for every T, a walk without failed fetch makes exactly T requests, one  *)
(* for each page 1..T, and api_find_on_pages returns None.                 *)
C5_ExactlyTotalPagesFetches ==
    (NoMatchListing /\ Failures(trace) = <<>>) =>
        /\ Pages(Requests(trace)) = UpTo(ReportedTotal)
        /\ value = None

(* C5 amended: on a listing without match that reports total_pages = T,    *)
(* the walk evaluates exactly the pages 1..max(1, T), each once and in     *)
(* order, makes max(1, T) requests plus one for every failed fetch, and    *)
(* api_find_on_pages returns None.                                         *)
C5_MaxOneTotalPagesFetches ==
    NoMatchListing =>
        /\ Pages(Callbacks(trace)) = UpTo(Max(1, ReportedTotal))
        /\ Len(Requests(trace)) = Max(1, ReportedTotal) + Len(Failures(trace))
        /\ value = None

\* a listing of two pages without match has been walked to its end
C5_Witness ==
    /\ NoMatchListing
    /\ ReportedTotal = 2
    /\ Len(Requests(trace)) = 2
    /\ op.name \in {e.name : e \in Entries(op.target)}

(* C6: the page numbers requested in a walk are 1, 2, 3, ... with no page  *)
(* requested twice, and page p+1 is requested only after the callback has  *)
(* been evaluated on page p and returned false.                            *)
C6_RequestsStrictlyIncreasing ==
    /\ Pages(Requests(trace)) = UpTo(Len(Requests(trace)))
    /\ \A i \in 1..Len(trace) :
          (IsRequest(trace[i]) /\ trace[i].page > 1) =>
              \E j \in 1..(i - 1) :
                  /\ IsCallback(trace[j])
                  /\ trace[j].page = trace[i].page - 1
                  /\ ~trace[j].stop

(* C7: when the amount-th acceptable allocation (amount >= 1), in page     *)
(* order, lies on page k, the walk ends there: no page greater than k is   *)
(* requested and the entries of page k after that allocation are not       *)
(* examined.                                                               *)
C7_StopsAtAmount ==
    (IsAlloc /\ op.amount >= 1) =>
        \A pos \in AcceptablePositions :
            Rank(pos) = op.amount =>
                /\ pc = "done"
                /\ Len(Callbacks(trace)) = pos[1]
                /\ Callbacks(trace)[pos[1]].stop
                /\ Callbacks(trace)[pos[1]].examined = pos[2]
                /\ \A i \in 1..Len(trace) :
                      IsRequest(trace[i]) => trace[i].page <= Callbacks(trace)[pos[1]].page

\* the amount-th acceptable allocation is the first entry of page 1, which
\* holds another entry and reports a second page
C7_Witness ==
    /\ IsAlloc
    /\ op.amount = 1
    /\ pc = "done"
    /\ Len(Callbacks(trace)) = 1
    /\ Len(Callbacks(trace)[1].data) = 2
    /\ Callbacks(trace)[1].examined = 1
    /\ Callbacks(trace)[1].total_pages = 2
    /\ Len(allocations) = 1

(* C8: when the walk has exhausted the pages and they hold fewer than      *)
(* amount acceptable allocations, get_free_allocations returns exactly the *)
(* acceptable allocations of the pages 1..total_pages, in page order then  *)
(* in-page order.                                                          *)
C8_PartialSetIsExact ==
    (IsAlloc /\ pc = "done" /\ Len(AcceptableServed) < op.amount) =>
        /\ allocations = AcceptableServed
        /\ Pages(Callbacks(trace)) = UpTo(Len(Callbacks(trace)))
        /\ Callbacks(trace)[Len(Callbacks(trace))].total_pages <= Len(Callbacks(trace))

\* one page with {id 1, unassigned} and {id 2, assigned}, total_pages = 1,
\* used empty, amount 2: exactly the allocation with id 1 is returned
C8_Witness ==
    /\ IsAlloc
    /\ pc = "done"
    /\ op.used = <<>>
    /\ op.amount = 2
    /\ Len(Callbacks(trace)) = 1
    /\ Callbacks(trace)[1].total_pages = 1
    /\ [i \in 1..Len(Callbacks(trace)[1].data) |-> Callbacks(trace)[1].data[i].id] = <<1, 2>>
    /\ Len(allocations) = 1
    /\ allocations[1].id = 1

---------------------------------------------------------------------------
(* Vocabulary of the construction properties: the configuration "after     *)
(* merging file and environment", stated on the file and the environment.  *)

\* the value of a field in the file; absent when there is no readable file
FileField(f, field) ==
    IF f.exists /\ IsSome(f.content) THEN Unwrap(f.content)[field] ELSE None

\* the environment variable wins whenever it is set
Merged(f, e, field, var) == IF e[var] # None THEN e[var] ELSE FileField(f, field)

AbsentOrEmpty(v) == v \in {None, Some("")}

\* the fields that are absent or empty, in the order url, token, user
ExpectedMissing(f, e) ==
    SelectSeq(<<"url", "token", "user">>,
              LAMBDA field :
                  \/ field = "url" /\ AbsentOrEmpty(Merged(f, e, "url", "PTERODACTYL_URL"))
                  \/ field = "token" /\ AbsentOrEmpty(Merged(f, e, "token", "PTERODACTYL_TOKEN"))
                  \/ field = "user" /\ AbsentOrEmpty(Merged(f, e, "user", "PTERODACTYL_USER")))

(* C9: construction goes on to a Backend only if url, token and user are   *)
(* all present and non-empty after merging file and environment;           *)
(* otherwise it returns an error, makes no remote call, and reports as     *)
(* missing exactly the absent or empty fields, in the order url, token,    *)
(* user; with no file and no variable set these are url, token and user.   *)
C9_ValidationIsExact ==
    [][/\ (cpc = "start" /\ cpc' # "start") =>
          /\ missing' = ExpectedMissing(file, env)
          /\ (ExpectedMissing(file, env) # <<>> =>
                /\ outcome' = "err"
                /\ cpc' = "returned"
                /\ backend' = None
                /\ trace' = <<>>
                /\ lookups' = 0
                /\ pc' = "idle")
          /\ (ExpectedMissing(file, env) = <<>> =>
                /\ outcome' = "none"
                /\ cpc' = "resolving"
                /\ IsSome(backend')
                /\ ~AbsentOrEmpty(Unwrap(backend').url)
                /\ ~AbsentOrEmpty(Unwrap(backend').token)
                /\ ~AbsentOrEmpty(Unwrap(backend').user))
          /\ ((~file.exists /\ \A v \in EnvVars : env[v] = None) =>
                missing' = <<"url", "token", "user">> /\ outcome' = "err")
       /\ (outcome' = "ok" => (missing' = <<>> /\ ExpectedMissing(file, env) = <<>>))
      ]_vars

\* no file and no variable: the construction has failed reporting the three
\* fields, without any request
C9_Witness ==
    /\ cpc = "returned"
    /\ outcome = "err"
    /\ missing = <<"url", "token", "user">>
    /\ ~file.exists
    /\ \A v \in EnvVars : env[v] = None
    /\ trace = <<>>

(* C10: the construction looks the configured user up exactly once, and    *)
(* only after the validation has succeeded; when no user of that name is   *)
(* found it returns an error and no Backend; when it returns a Backend,    *)
(* the stored resolved id is the id of the first remote user whose         *)
(* username equals the configured one.                                     *)
C10_ResolvedOnceOrError ==
    /\ lookups <= 1
    /\ lookups = 1 =>
          /\ missing = <<>>
          /\ ExpectedMissing(file, env) = <<>>
          /\ cpc \in {"resolving", "returned"} =>
                /\ op.target = "users"
                /\ Some(op.name) = Merged(file, env, "user", "PTERODACTYL_USER")
    /\ cpc \in {"start", "resolving"} => outcome = "none"
    /\ (cpc = "returned" /\ outcome = "ok") =>
          /\ lookups = 1
          /\ MatchPages # {}
          /\ IsSome(backend)
          /\ Unwrap(backend).resolved =
                Some([user |-> FirstMatch(Callbacks(trace)[LowestMatch].data).id])
    /\ (cpc = "returned" /\ outcome = "err") =>
          /\ backend = None
          /\ missing = <<>> => (lookups = 1 /\ MatchPages = {})

\* the user named by the environment was found on the second page and its id
\* is stored in the Backend returned
C10_Witness ==
    /\ cpc = "returned"
    /\ outcome = "ok"
    /\ lookups = 1
    /\ env["PTERODACTYL_USER"] = Some("bob")
    /\ Len(Callbacks(trace)) = 2
    /\ Unwrap(backend).resolved = Some([user |-> 3])

---------------------------------------------------------------------------
(* C17: in any walk, with or without failed fetches, the callback is       *)
(* invoked at most once per page number, in increasing page order, and     *)
(* only right after a request for that page that was answered; so the      *)
(* vector of get_free_allocations never holds the allocations of a page    *)
(* twice.                                                                  *)
C17_CallbackOncePerFetchedPage ==
    /\ Pages(Callbacks(trace)) = UpTo(Len(Callbacks(trace)))
    /\ \A i \in 1..Len(trace) :
          IsCallback(trace[i]) =>
              /\ i > 1
              /\ IsRequest(trace[i - 1])
              /\ trace[i - 1].page = trace[i].page
    /\ \A i \in 1..Len(trace) :
          IsFailed(trace[i]) =>
              \A j \in 1..Len(trace) : IsCallback(trace[j]) /\ j < i => trace[j].page < trace[i].page
    /\ IsAlloc =>
          /\ Len(allocations) <= Len(AcceptableServed)
          /\ allocations = SubSeq(AcceptableServed, 1, Len(allocations))

\* a walk over allocations whose fetch of page 2 failed once has evaluated
\* pages 1 and 2 and collected from both
C17_Witness ==
    /\ IsAlloc
    /\ pc = "done"
    /\ Len(Failures(trace)) = 1
    /\ Failures(trace)[1].page = 2
    /\ Pages(Callbacks(trace)) = <<1, 2>>
    /\ Len(allocations) = 2

(* C18: when no fetch fails and every reported total_pages is at most N,   *)
(* a walk makes at most max(1, N) requests; page 1 is always requested,    *)
(* also when total_pages is reported as 0; and the walk is over as soon as *)
(* the page evaluated last reports total_pages <= its own page number.     *)
C18_AtMostMaxOneNFetches ==
    /\ \A n \in 0..MaxPages :
          (/\ Failures(trace) = <<>>
           /\ \A i \in 1..Len(Callbacks(trace)) : Callbacks(trace)[i].total_pages <= n)
          => Len(Requests(trace)) <= Max(1, n)
    /\ pc = "done" => (trace # <<>> /\ IsRequest(trace[1]) /\ trace[1].page = 1)
    /\ \A i \in 1..Len(trace) :
          (IsCallback(trace[i]) /\ trace[i].total_pages <= trace[i].page) =>
              (i = Len(trace) /\ pc # "loop")
    /\ (pc = "loop" /\ trace # <<>> /\ IsCallback(trace[Len(trace)])) =>
          /\ ~trace[Len(trace)].stop
          /\ trace[Len(trace)].total_pages > trace[Len(trace)].page
          /\ page = trace[Len(trace)].page + 1

\* page 1 reported two pages, page 2 reported one: the walk ended on page 2
\* after two requests
C18_Witness ==
    /\ pc = "done"
    /\ Failures(trace) = <<>>
    /\ Len(Callbacks(trace)) = 2
    /\ Callbacks(trace)[1].total_pages = 2
    /\ Callbacks(trace)[2].total_pages = 1
    /\ ~Callbacks(trace)[2].stop
    /\ Len(Requests(trace)) = 2

---------------------------------------------------------------------------
\* a response the panel's client accepts: it is there, its status is exactly
\* 200 and its bytes decode
Accepted(response) ==
    /\ response # None
    /\ Unwrap(response).status_code = 200
    /\ Unwrap(response).bytes # None

(* C11: create_server returns a server only for a response that is there,  *)
(* has status exactly 200 and decodes, and then the server decoded from    *)
(* it; in every other case, a 422 or a 201 included, it returns None.      *)
C11_OnlyStatus200Accepted ==
    (created.called /\ ~created.panicked) =>
        /\ IsSome(created.result) <=> Accepted(created.response)
        /\ Accepted(created.response) =>
              created.result = Some(Unwrap(Unwrap(created.response).bytes).attributes)
        /\ ~Accepted(created.response) => created.result = None

\* the panel answered the POST with status 422 and a body that decodes:
\* create_server returned None
C11_Witness ==
    /\ created.called
    /\ created.response # None
    /\ Unwrap(created.response).status_code = 422
    /\ Unwrap(created.response).bytes # None
    /\ created.result = None

(* C15: for each of url, token and user, the value validated, stored in    *)
(* the Backend and sent with the requests is the value of the environment  *)
(* variable whenever it is set, and the value of the file otherwise; the   *)
(* three fields are merged independently of each other.                    *)
C15_EnvironmentOverridesFile ==
    /\ cpc # "start" =>
          /\ ("url" \in Range(missing)) <=> AbsentOrEmpty(Merged(file, env, "url", "PTERODACTYL_URL"))
          /\ ("token" \in Range(missing)) <=>
                AbsentOrEmpty(Merged(file, env, "token", "PTERODACTYL_TOKEN"))
          /\ ("user" \in Range(missing)) <=>
                AbsentOrEmpty(Merged(file, env, "user", "PTERODACTYL_USER"))
    /\ (cpc # "start" /\ IsSome(backend)) =>
          /\ Unwrap(backend).url = Merged(file, env, "url", "PTERODACTYL_URL")
          /\ Unwrap(backend).token = Merged(file, env, "token", "PTERODACTYL_TOKEN")
          /\ Unwrap(backend).user = Merged(file, env, "user", "PTERODACTYL_USER")
    /\ \A i \in 1..Len(trace) :
          IsRequest(trace[i]) =>
              /\ Some(trace[i].url) = Merged(file, env, "url", "PTERODACTYL_URL")
              /\ Some(trace[i].token) = Merged(file, env, "token", "PTERODACTYL_TOKEN")
              /\ Some(op.name) = Merged(file, env, "user", "PTERODACTYL_USER")

\* the url comes from the environment and replaces the one of the file, the
\* token comes from the file, and a request has been sent with both
C15_Witness ==
    /\ cpc = "resolving"
    /\ env["PTERODACTYL_URL"] = Some("http://env")
    /\ FileField(file, "url") = Some("http://file")
    /\ env["PTERODACTYL_TOKEN"] = None
    /\ env["PTERODACTYL_USER"] = None
    /\ trace # <<>>
    /\ trace[1].url = "http://env"
    /\ trace[1].token = "file-token"
    /\ op.name = "admin"

\* the Backend that new_filled_and_resolved returned is in hand
Constructed == cpc \in {"returned", "ready"} /\ outcome = "ok"

(* C19: a Backend returned by new_filled_and_resolved carries the resolved *)
(* identity found by the lookup of that call, whatever the file held as    *)
(* resolved; create_server on it never reads an absent identity and sends  *)
(* that identity; and the Backend is not written after its construction.   *)
C19_ResolvedSetOnceFromLookup ==
    /\ [](Constructed =>
            /\ IsSome(backend)
            /\ IsSome(Unwrap(backend).resolved)
            /\ \E u \in Users :
                  /\ Some(u.name) = Unwrap(backend).user
                  /\ Unwrap(backend).resolved = Some([user |-> u.id])
            /\ cpc = "returned" =>
                  (IsSome(value) /\ Unwrap(backend).resolved = Some([user |-> Unwrap(value).id]))
            /\ created.called =>
                  /\ ~created.panicked
                  /\ Unwrap(created.request).user = Unwrap(Unwrap(backend).resolved).user)
    /\ [][Constructed => backend' = backend]_vars

\* the file held a resolved value of its own; create_server has sent the user
\* id found by the lookup instead
C19_Witness ==
    /\ Constructed
    /\ created.called
    /\ ~created.panicked
    /\ IsSome(file.content)
    /\ Unwrap(file.content).resolved = Some([user |-> 9])
    /\ Unwrap(created.request).user = 3

---------------------------------------------------------------------------
\* the calls on a capsule that only read it
ReadingCalls == {"is_allowed", "get_user", "get_server", "is_type"}

(* C12: on every administrator capsule, is_allowed answers true for every  *)
(* flag, get_user returns the capsule's own identity and get_server        *)
(* returns nothing, so exactly one of the two returns a value, and is_type *)
(* answers true exactly for the User kind; none of these calls changes a   *)
(* capsule.                                                                *)
C12_AdminAllowsEveryFlag ==
    /\ [](/\ answer.call = "is_allowed" => answer.bool = Some(TRUE)
          /\ answer.call = "get_user" => answer.ref = Some(capsules[answer.self])
          /\ answer.call = "get_server" => answer.ref = None
          /\ answer.call = "is_type" => answer.bool = Some(Unwrap(answer.auth) = "User")
          /\ \A i \in 1..Len(capsules) :
                /\ IsSome(get_user(capsules[i])) # IsSome(get_server(capsules[i]))
                /\ \A flag \in Flags : is_allowed(capsules[i], flag)
                /\ \A auth \in AuthTypes : is_type(capsules[i], auth) <=> auth = "User")
    /\ [][answer'.call \in ReadingCalls => (capsules' = capsules /\ origin' = origin)]_vars

\* the capsule of bob was asked for the flag 0 and allowed it
C12_Witness ==
    /\ answer.call = "is_allowed"
    /\ answer.flag = Some(0)
    /\ answer.bool = Some(TRUE)
    /\ capsules[answer.self].username = "bob"

\* the capsule a chain of recreate calls started from
RECURSIVE Root(_)
Root(j) == IF origin[j] = 0 THEN j ELSE Root(origin[j])

\* two capsules that cannot be told apart by variant, username, is_type or is_allowed
SameCapsule(c, o) ==
    /\ c.variant = o.variant
    /\ c.username = o.username
    /\ \A flag \in Flags : is_allowed(c, flag) = is_allowed(o, flag)
    /\ \A auth \in AuthTypes : is_type(c, auth) = is_type(o, auth)

(* C13: a capsule made by recreate has the variant and the username of the *)
(* capsule it was made from and gives the same is_type and is_allowed      *)
(* answers for every kind and flag, also at the end of a chain of recreate *)
(* calls; and no call changes a capsule that exists.                       *)
C13_RecreatePreservesCapsule ==
    /\ [](\A j \in 1..Len(capsules) :
             origin[j] # 0 =>
                /\ SameCapsule(capsules[j], capsules[origin[j]])
                /\ SameCapsule(capsules[j], capsules[Root(j)]))
    /\ [][/\ Len(capsules') >= Len(capsules)
          /\ \A i \in 1..Len(capsules) : capsules'[i] = capsules[i]]_vars

\* bob's capsule, its recreation and the recreation of that one
C13_Witness ==
    /\ Len(capsules) = 3
    /\ origin = <<0, 1, 2>>
    /\ answer.call = "recreate"
    /\ capsules[1].username = "bob"
    /\ capsules[3].username = "bob"

\* the entries caller t examined that are unassigned and not in t's own used list
OwnAcceptable(t) ==
    LET Ok(a) ==
            /\ ~a.assigned
            /\ \A i \in 1..Len(racers[t].used) :
                  ~(racers[t].used[i].ip = a.ip /\ racers[t].used[i].port = a.port)
    IN  SelectSeq(racers[t].examined, Ok)

(* C14: with two callers inside get_free_allocations at once, what each    *)
(* collects is exactly the entries it examined that are unassigned and not *)
(* in its own used list: nothing the other caller holds excludes an        *)
(* allocation, so both can hold the same one before any create_server.     *)
C14_NoExclusionBetweenCallers ==
    \A t \in Threads : racers[t].allocations = OwnAcceptable(t)

\* both callers have returned and both hold 10.0.0.1:100, with no server created
C14_Witness ==
    /\ created = NoCall
    /\ \A t \in Threads :
          /\ racers[t].pc = "done"
          /\ \E i \in 1..Len(racers[t].allocations) :
                /\ racers[t].allocations[i].ip = "10.0.0.1"
                /\ racers[t].allocations[i].port = 100
    /\ racers[1].used # racers[2].used

\* the calls of the menu that failed
FailedCalls == {i \in 1..Len(menu.responses) : ~menu.responses[i].ok}
ProgressOf(ev) == {i \in 1..Len(menu.progress) : menu.progress[i].ev = ev}

(* C16: the menu asks for the controller version first and the protocol    *)
(* version second, and does not ask for the second when the first failed;  *)
(* show returns Failed, with the error of the one call that failed and one *)
(* failure reported, exactly when a call failed, and Success exactly when  *)
(* both calls succeeded.                                                   *)
C16_SingleFailureOrSuccess ==
    /\ menu.calls \in {<<>>, <<"get_ctrl_ver">>, <<"get_ctrl_ver", "get_proto_ver">>}
    /\ Len(menu.responses) = Len(menu.calls)
    /\ (Len(menu.calls) >= 1 /\ ~menu.responses[1].ok) => Len(menu.calls) = 1
    /\ Cardinality(FailedCalls) <= 1
    /\ menu.pc = "returned" =>
          /\ menu.result.kind \in {"Success", "Failed"}
          /\ menu.result.kind = "Failed" <=> FailedCalls # {}
          /\ menu.result.kind = "Success" <=>
                (Len(menu.calls) = 2 /\ menu.responses[1].ok /\ menu.responses[2].ok)
          /\ menu.result.kind = "Failed" =>
                /\ \A i \in FailedCalls : menu.result.error = menu.responses[i].error
                /\ Cardinality(ProgressOf("fail")) = 1
                /\ ProgressOf("success") = {}
                /\ \A i \in ProgressOf("fail") :
                      Some(menu.progress[i].text) = menu.result.error
          /\ menu.result.kind = "Success" =>
                /\ menu.result.error = None
                /\ Cardinality(ProgressOf("success")) = 1
                /\ ProgressOf("fail") = {}

\* the controller version was obtained, the protocol version timed out
C16_Witness ==
    /\ menu.pc = "returned"
    /\ menu.calls = <<"get_ctrl_ver", "get_proto_ver">>
    /\ menu.responses[1].ok
    /\ ~menu.responses[2].ok
    /\ menu.result = [kind |-> "Failed", error |-> Some("timeout")]

====
